---- MODULE Spec2Model ----
(***************************************************************************)
(* Model of n8n/local_files/extract.py: the response sanitizer, the        *)
(* column-shift corrector, the sticky unit/room/category state and the     *)
(* per-chunk loop of process_pdf_chunks.                                   *)
(*                                                                         *)
(* Python strings are modelled as sequences of one-character strings, so   *)
(* that strip(), lower(), replace(), find(), the regular expression of     *)
(* fix_json_lines and float() are computed character by character.         *)
(***************************************************************************)
EXTENDS Integers, Sequences, FiniteSets, TLC

VARIABLES
    \* ---- column-shift corrector, applied to one item ----
    cur,        \* the item as it is now
    prev,       \* the item the last pass was applied to
    ops,        \* the passes applied so far, oldest first
    \* ---- response sanitizer, applied to one text ----
    raw,        \* the text handed to the function
    out,        \* the text it returned
    spc,        \* "idle", "input", "cleaned" (clean_json_string), "fixed" (fix_json_lines)
    \* ---- process_pdf_chunks ----
    pc,         \* "idle", "loop", "done" (returned final_output), "crashed" (uncaught exception)
    nchunks,    \* len(chunks)
    i,          \* index of the next chunk of the for loop (0-based)
    last_unit, last_room, last_category,
    all_items,
    final_output,
    uncaught,   \* the statement whose exception no handler caught ("none" while running)
    log         \* history: per processed chunk, the response and the sticky state before it

vars == <<cur, prev, ops, raw, out, spc, pc, nchunks, i,
          last_unit, last_room, last_category, all_items, final_output,
          uncaught, log>>

corrVars == <<cur, prev, ops>>
sanVars  == <<raw, out, spc>>
pipeVars == <<pc, nchunks, i, last_unit, last_room, last_category,
              all_items, final_output, uncaught, log>>

(***************************************************************************)
(* Strings                                                                 *)
(***************************************************************************)
\* the characters str.strip() and the regular expression's \s treat as white space
WS == {" ", "\t", "\n", "\r", "\f"}

Digits == <<"0", "1", "2", "3", "4", "5", "6", "7", "8", "9">>

DigitSet == {Digits[k] : k \in 1..Len(Digits)}

IsDigit(c) == c \in DigitSet

\* the value of each digit character
DigitVals == [c \in DigitSet |-> (CHOOSE k \in 1..Len(Digits) : Digits[k] = c) - 1]

DigitVal(c) == DigitVals[c]

\* str.strip(): drop leading and trailing white space
RECURSIVE LStrip(_)
LStrip(s) == IF s # <<>> /\ Head(s) \in WS THEN LStrip(Tail(s)) ELSE s

RECURSIVE RStrip(_)
RStrip(s) ==
    IF s # <<>> /\ s[Len(s)] \in WS THEN RStrip(SubSeq(s, 1, Len(s) - 1)) ELSE s

Strip(s) == RStrip(LStrip(s))

\* str.lower() on the letters the model uses
LowerChar(c) ==
    CASE c = "U" -> "u" [] c = "N" -> "n" [] c = "K" -> "k"
      [] c = "O" -> "o" [] c = "W" -> "w" [] c = "R" -> "r" [] c = "C" -> "c"
      [] OTHER -> c

Lower(s) == [k \in 1..Len(s) |-> LowerChar(s[k])]

\* s.replace(",", "")
RemoveCommas(s) == SelectSeq(s, LAMBDA c : c # ",")

(***************************************************************************)
(* _to_num: float(str(s).replace(",", "").strip() or "0"), 0.0 on any      *)
(* exception.  The float is kept exactly as mantissa / 10^(fraction        *)
(* digits): num is the signed integer the digits spell, den the power of   *)
(* ten.  float() is modelled on signed decimal literals; everything else   *)
(* the model's inputs can spell raises ValueError.                         *)
(***************************************************************************)
RECURSIVE DigitsToInt(_)
DigitsToInt(s) ==
    IF s = <<>> THEN 0
    ELSE DigitsToInt(SubSeq(s, 1, Len(s) - 1)) * 10 + DigitVal(s[Len(s)])

RECURSIVE Pow10(_)
Pow10(k) == IF k = 0 THEN 1 ELSE 10 * Pow10(k - 1)

AllDigits(s) == \A k \in 1..Len(s) : IsDigit(s[k])

DotPositions(s) == {k \in 1..Len(s) : s[k] = "."}

WithoutDot(s) == SelectSeq(s, LAMBDA c : c # ".")

\* the unsigned part of a decimal literal: digits, at most one ".", at least one digit
IsDecimal(s) ==
    LET d == WithoutDot(s)
    IN  /\ d # <<>>
        /\ Len(s) - Len(d) <= 1
        /\ AllDigits(d)

FracDigits(s) ==
    IF DotPositions(s) = {} THEN 0
    ELSE Len(s) - (CHOOSE k \in DotPositions(s) : TRUE)

\* float(t): [ok |-> FALSE] stands for ValueError
ParseFloat(t) ==
    LET signed == t # <<>> /\ Head(t) \in {"-", "+"}
        body   == IF signed THEN Tail(t) ELSE t
        sign   == IF signed /\ Head(t) = "-" THEN -1 ELSE 1
    IN  IF IsDecimal(body)
        THEN [ok  |-> TRUE,
              num |-> sign * DigitsToInt(WithoutDot(body)),
              den |-> Pow10(FracDigits(body))]
        ELSE [ok |-> FALSE, num |-> 0, den |-> 1]

to_num(s) ==
    LET t == Strip(RemoveCommas(s))
        f == ParseFloat(IF t = <<>> THEN <<"0">> ELSE t)
    IN  IF f.ok THEN [num |-> f.num, den |-> f.den] ELSE [num |-> 0, den |-> 1]

IsZero(x) == x.num = 0
IsPos(x)  == x.num > 0

(***************************************************************************)
(* LineItem and the column-shift corrector                                 *)
(***************************************************************************)
TextKeys == {"unit", "room", "category", "serial", "description", "qty", "uom"}
CostKeys == {"reset", "remove", "replace", "tax", "oandp", "total"}
Keys     == TextKeys \cup CostKeys

\* the conditions of _needs_left_shift (cond_b_any: cond_b as it would be
\* without its "> 0" test)
cond_a(item) == IsZero(to_num(item.total)) /\ IsPos(to_num(item.oandp))
cond_b_any(item) == item.oandp = item.total
cond_b(item) == item.oandp = item.total /\ IsPos(to_num(item.total))
cond_c(item) == item.replace = item.tax /\ IsPos(to_num(item.tax))
cond_d(item) ==
    /\ IsZero(to_num(item.reset))
    /\ IsPos(to_num(item.remove))
    /\ IsPos(to_num(item.replace))

needs_left_shift(item) ==
    cond_a(item) \/ cond_b(item) \/ cond_c(item) \/ cond_d(item)

\* the five assignments made in the opposite order, each reading the cell the
\* one before it has just overwritten
ShiftColumnsReversed(item) ==
    [item EXCEPT !.remove  = <<"0">>,
                 !.replace = <<"0">>,
                 !.tax     = <<"0">>,
                 !.oandp   = <<"0">>,
                 !.total   = <<"0">>]

\* the five assignments both passes make (on a copy of the item)
ShiftColumns(item) ==
    [item EXCEPT !.total   = item.oandp,
                 !.oandp   = item.tax,
                 !.tax     = item.replace,
                 !.replace = item.remove,
                 !.remove  = <<"0">>]

fix_shift(item) ==
    IF needs_left_shift(item) THEN ShiftColumns(item) ELSE item

\* the items are LineItem.dict(), so every key is present and the KeyError
\* branch is never taken
shift_on_dup(item) ==
    IF item.oandp = item.total /\ IsPos(to_num(item.total))
    THEN ShiftColumns([item EXCEPT !.reset = <<"0">>])
    ELSE item

\* process_pdf_chunks, steps 1) and 2) on one item
Corrector(item) == fix_shift(shift_on_dup(item))

(***************************************************************************)
(* The corrector on its own: every pass applied to every item whose six    *)
(* cost cells are drawn from RawCells, and applied again to its output.    *)
(***************************************************************************)
MaxPasses == 2

RawCells ==
    { <<>>,                          \* a blank cell
      <<"0">>,
      <<"0", ".", "0", "0">>,
      <<"5">>,
      <<"5", ".", "0", "0">>,
      <<"-", "5">> }

BaseItem ==
    [unit |-> <<"U", "1">>, room |-> <<"R", "1">>, category |-> <<"C", "1">>,
     serial |-> <<"5", "9", "1">>, description |-> <<"d">>,
     qty |-> <<"3", ".", "0", "7">>, uom |-> <<"S", "F">>,
     reset |-> <<"0">>, remove |-> <<"0">>, replace |-> <<"0">>,
     tax |-> <<"0">>, oandp |-> <<"0">>, total |-> <<"0">>]

CorrItems ==
    { [BaseItem EXCEPT !.reset = c[1], !.remove = c[2], !.replace = c[3],
                       !.tax = c[4], !.oandp = c[5], !.total = c[6]] :
        c \in [1..6 -> RawCells] }

NoItem == [unit |-> <<>>]

CorrInit == /\ cur \in CorrItems
            /\ prev = cur
            /\ ops = <<>>

CorrIdle == /\ cur = NoItem
            /\ prev = NoItem
            /\ ops = <<>>

\* The passes are applied in the orders the claims speak of: a pass repeated
\* on its own output, and the general pass on the duplicate pass's output
\* (the order of process_pdf_chunks).
OnlyOps(kinds) == \A k \in 1..Len(ops) : ops[k] \in kinds

ShiftOnDup ==
    /\ Len(ops) < MaxPasses
    /\ OnlyOps({"dup"})
    /\ prev' = cur
    /\ cur' = shift_on_dup(cur)
    /\ ops' = Append(ops, "dup")
    /\ UNCHANGED <<sanVars, pipeVars>>

FixShift ==
    /\ Len(ops) < MaxPasses
    /\ OnlyOps({"dup", "general"})
    /\ prev' = cur
    /\ cur' = fix_shift(cur)
    /\ ops' = Append(ops, "general")
    /\ UNCHANGED <<sanVars, pipeVars>>

Correct ==
    /\ Len(ops) < MaxPasses
    /\ OnlyOps({"corrector"})
    /\ prev' = cur
    /\ cur' = Corrector(cur)
    /\ ops' = Append(ops, "corrector")
    /\ UNCHANGED <<sanVars, pipeVars>>

SanIdle == /\ raw = <<>>
           /\ out = <<>>
           /\ spc = "idle"

PipeIdle == /\ pc = "idle"
            /\ nchunks = 0
            /\ i = 0
            /\ last_unit = <<>>
            /\ last_room = <<>>
            /\ last_category = <<>>
            /\ all_items = <<>>
            /\ final_output = <<>>
            /\ uncaught = "none"
            /\ log = <<>>

CorrectorInit == CorrInit /\ SanIdle /\ PipeIdle

CorrectorNext == ShiftOnDup \/ FixShift \/ Correct

CorrectorSpec == CorrectorInit /\ [][CorrectorNext]_vars

(***************************************************************************)
(* Claims about the corrector (checked under CorrectorSpec)                *)
(***************************************************************************)
LastOp == ops[Len(ops)]

\* y is x shifted one column to the right, with reset = r and nothing else touched
IsShiftOf(x, y, r) ==
    /\ DOMAIN y = Keys
    /\ y.total = x.oandp
    /\ y.oandp = x.tax
    /\ y.tax = x.replace
    /\ y.replace = x.remove
    /\ y.remove = <<"0">>
    /\ y.reset = r
    /\ \A k \in TextKeys : y[k] = x[k]

BothZero(x) == IsZero(to_num(x.oandp)) /\ IsZero(to_num(x.total))

\* C4: the corrector is idempotent: the corrector applied to an item the
\* corrector has already corrected returns that item, and each pass applied to
\* its own output returns it unchanged.
C4_Idempotent ==
    (Len(ops) >= 2 /\ ops[Len(ops) - 1] = LastOp) => cur = prev

\* C5 as claimed: an item whose oandp and total are both numerically 0 makes no
\* shift condition fire and comes out of the corrector unchanged, whatever its
\* reset, remove, replace and tax.
C5_ZeroNeverShifted ==
    (ops = <<"corrector">> /\ BothZero(prev)) =>
        (~needs_left_shift(prev) /\ cur = prev)

\* C5 as amended: for an item whose oandp and total are both numerically 0,
\* conditions a and b do not fire and the duplicate pass returns it unchanged;
\* the corrector returns it unchanged unless condition c or d holds, and then
\* returns it shifted with reset untouched.
C5_ZeroShiftedOnlyByCD ==
    (Len(ops) = 1 /\ BothZero(prev)) =>
        /\ ~cond_a(prev)
        /\ ~cond_b(prev)
        /\ LastOp = "dup" => cur = prev
        /\ LastOp = "corrector" =>
              IF cond_c(prev) \/ cond_d(prev)
              THEN IsShiftOf(prev, cur, prev.reset)
              ELSE cur = prev

C5_Witness ==
    /\ ops = <<"corrector">>
    /\ prev.oandp = <<"0", ".", "0", "0">>
    /\ prev.total = <<"0", ".", "0", "0">>
    /\ prev.remove = <<"5", ".", "0", "0">>
    /\ prev.reset = <<"5">>
    /\ cur = prev

\* C8: a pass that fires returns total = x.oandp, oandp = x.tax, tax = x.replace,
\* replace = x.remove, remove = "0"; the general pass keeps reset and the
\* duplicate pass sets it to "0"; the seven text fields and the 13 keys are
\* kept; a pass that does not fire returns its input.
C8_ShiftMapping ==
    ops # <<>> =>
        /\ LastOp = "general" =>
              IF cond_a(prev) \/ cond_b(prev) \/ cond_c(prev) \/ cond_d(prev)
              THEN IsShiftOf(prev, cur, prev.reset)
              ELSE cur = prev
        /\ LastOp = "dup" =>
              IF prev.oandp = prev.total /\ IsPos(to_num(prev.total))
              THEN IsShiftOf(prev, cur, <<"0">>)
              ELSE cur = prev

C8_Witness ==
    /\ ops = <<"dup">>
    /\ prev.reset = <<"5">>
    /\ prev.remove = <<"5", ".", "0", "0">>
    /\ prev.tax = <<>>
    /\ prev.oandp = <<"5">>
    /\ cur.reset = <<"0">>
    /\ cur.replace = <<"5", ".", "0", "0">>
    /\ cur.oandp = <<>>
    /\ cur.total = <<"5">>

\* C9: the general pass, run on the item the duplicate pass left, changes it
\* only if condition a, c or d holds on that item; condition b alone never
\* makes the general pass fire.
C9_GeneralOnlyACD ==
    (ops = <<"dup", "general">> /\ cur # prev) =>
        (cond_a(prev) \/ cond_c(prev) \/ cond_d(prev))

(***************************************************************************)
(* Response sanitizer: clean_json_string and fix_json_lines                *)
(***************************************************************************)
Quote     == "\""
Backslash == "\\"

\* str.find(c) and str.rfind(c): 0-based index, -1 when c does not occur
Find(s, c) ==
    IF \E k \in 1..Len(s) : s[k] = c
    THEN (CHOOSE k \in 1..Len(s) :
              s[k] = c /\ \A j \in 1..(k - 1) : s[j] # c) - 1
    ELSE -1

RFind(s, c) ==
    IF \E k \in 1..Len(s) : s[k] = c
    THEN (CHOOSE k \in 1..Len(s) :
              s[k] = c /\ \A j \in (k + 1)..Len(s) : s[j] # c) - 1
    ELSE -1

\* s[a:b] for 0 <= a and 0 <= b <= len(s) (empty when b <= a)
Slice(s, a, b) == SubSeq(s, a + 1, b)

StartsWith(s, pat) == Len(s) >= Len(pat) /\ SubSeq(s, 1, Len(pat)) = pat

\* s.replace(pat, ""): every non-overlapping occurrence, left to right
RECURSIVE Remove(_, _)
Remove(s, pat) ==
    IF s = <<>> THEN <<>>
    ELSE IF StartsWith(s, pat) THEN Remove(SubSeq(s, Len(pat) + 1, Len(s)), pat)
    ELSE <<Head(s)>> \o Remove(Tail(s), pat)

\* the backquote character (spelled out: the one character of these sequences
\* that is not written as itself)
Backquote == "backquote"

FenceJson == <<Backquote, Backquote, Backquote, "j", "s", "o", "n">>
Fence     == <<Backquote, Backquote, Backquote>>

\* str.splitlines() on the line boundaries "\n", "\r", "\r\n" and "\f":
\* a boundary closes the current line, the end of the text closes a non-empty one
RECURSIVE SplitLinesFrom(_, _, _)
SplitLinesFrom(s, line, acc) ==
    IF s = <<>> THEN (IF line = <<>> THEN acc ELSE Append(acc, line))
    ELSE IF Len(s) >= 2 /\ s[1] = "\r" /\ s[2] = "\n"
         THEN SplitLinesFrom(SubSeq(s, 3, Len(s)), <<>>, Append(acc, line))
    ELSE IF Head(s) \in {"\n", "\r", "\f"}
         THEN SplitLinesFrom(Tail(s), <<>>, Append(acc, line))
    ELSE SplitLinesFrom(Tail(s), Append(line, Head(s)), acc)

SplitLines(s) == SplitLinesFrom(s, <<>>, <<>>)

\* "\n".join(lines)
RECURSIVE JoinLines(_)
JoinLines(lines) ==
    IF lines = <<>> THEN <<>>
    ELSE IF Len(lines) = 1 THEN lines[1]
    ELSE lines[1] \o <<"\n">> \o JoinLines(Tail(lines))

\* json.dumps(value) on the characters of the model
EscapeChar(c) ==
    CASE c = Quote     -> <<Backslash, Quote>>
      [] c = Backslash -> <<Backslash, Backslash>>
      [] c = "\t"      -> <<Backslash, "t">>
      [] c = "\n"      -> <<Backslash, "n">>
      [] c = "\r"      -> <<Backslash, "r">>
      [] c = "\f"      -> <<Backslash, "f">>
      [] OTHER         -> <<c>>

RECURSIVE EscapeAll(_)
EscapeAll(v) == IF v = <<>> THEN <<>> ELSE EscapeChar(Head(v)) \o EscapeAll(Tail(v))

json_dumps(v) == <<Quote>> \o EscapeAll(v) \o <<Quote>>

\* \s* from position p (1-based): the first position that is not white space
RECURSIVE SkipWS(_, _)
SkipWS(line, p) ==
    IF p <= Len(line) /\ line[p] \in WS THEN SkipWS(line, p + 1) ELSE p

\* [^"]+ from position p: the position of the next quote (Len + 1 if none)
RECURSIVE NextQuote(_, _)
NextQuote(line, p) ==
    IF p <= Len(line) /\ line[p] # Quote THEN NextQuote(line, p + 1) ELSE p

\* (?:\\.|[^"\\])* from position p: where the greedy repetition stops.  Every
\* alternative starts with a character that is no quote, so giving back
\* repetitions never lets the following quote match: the stop is the only
\* candidate for the closing quote.
RECURSIVE ValueEnd(_, _)
ValueEnd(line, p) ==
    IF p > Len(line) THEN p
    ELSE IF line[p] = Backslash
         THEN (IF p + 1 <= Len(line) THEN ValueEnd(line, p + 2) ELSE p)
    ELSE IF line[p] = Quote THEN p
    ELSE ValueEnd(line, p + 1)

At(line, p, c) == p <= Len(line) /\ line[p] = c

\* pattern.match(line) for
\*   (^\s*"[^"]+"\s*:\s*)"((?:\\.|[^"\\])*)"\s*(,?)\s*$
\* on one line (a line holds no line boundary)
MatchLine(line) ==
    LET k1 == SkipWS(line, 1)              \* the key's opening quote
        k2 == NextQuote(line, k1 + 1)      \* the key's closing quote
        c1 == SkipWS(line, k2 + 1)         \* the colon
        v1 == SkipWS(line, c1 + 1)         \* the value's opening quote
        v2 == ValueEnd(line, v1 + 1)       \* the value's closing quote
        t1 == SkipWS(line, v2 + 1)         \* the optional comma
        hasComma == At(line, t1, ",")
        e1 == IF hasComma THEN SkipWS(line, t1 + 1) ELSE t1
        ok == /\ At(line, k1, Quote)
              /\ At(line, k2, Quote)
              /\ k2 > k1 + 1
              /\ At(line, c1, ":")
              /\ At(line, v1, Quote)
              /\ At(line, v2, Quote)
              /\ e1 = Len(line) + 1
    IN  IF ok
        THEN [ok |-> TRUE,
              key |-> SubSeq(line, 1, v1 - 1),
              value |-> SubSeq(line, v1 + 1, v2 - 1),
              trailing |-> IF hasComma THEN <<",">> ELSE <<>>]
        ELSE [ok |-> FALSE, key |-> <<>>, value |-> <<>>, trailing |-> <<>>]

FixLine(line) ==
    LET m == MatchLine(line)
    IN  IF m.ok THEN m.key \o json_dumps(m.value) \o m.trailing ELSE line

fix_json_lines(raw_json) ==
    LET lines == SplitLines(raw_json)
    IN  JoinLines([k \in 1..Len(lines) |-> FixLine(lines[k])])

\* text.replace(FenceJson, '').replace(Fence, '').strip()
StripFences(text) == Strip(Remove(Remove(text, FenceJson), Fence))

\* start = text.find('{'); end = text.rfind('}') + 1;
\* if start != -1 and end != -1: text = text[start:end]
TruncateToBraces(text) ==
    LET start == Find(text, "{")
        end   == RFind(text, "}") + 1
    IN  IF start # -1 /\ end # -1 THEN Slice(text, start, end) ELSE text

clean_json_string(text) == fix_json_lines(TruncateToBraces(StripFences(text)))

(***************************************************************************)
(* The sanitizer on its own: both functions applied to every input text.   *)
(***************************************************************************)
MaxBody   == 3
MaxValLen == 3

SeqsUpTo(S, n) == UNION { [1..k -> S] : k \in 0..n }

\* responses: prose or a fence around a body of braces and letters
Prefixes == { <<>>, <<"x", " ">>, FenceJson \o <<"\n">> }
Suffixes == { <<>>, <<" ", "y">>, <<"\n">> \o Fence }

BraceTexts ==
    { p \o b \o s : p \in Prefixes, b \in SeqsUpTo({"{", "}", "a"}, MaxBody),
                    s \in Suffixes }

\* lines of the shape "<key>": "<value>"[,]
KeyPart   == <<" ", Quote, "k", Quote, ":", " ">>
Values    == SeqsUpTo({"a", Quote, Backslash, "\t"}, MaxValLen)
Trailings == { <<>>, <<",">> }

KvLine(v, tr) == KeyPart \o <<Quote>> \o v \o <<Quote>> \o tr

KvTexts == { KvLine(v, tr) : v \in Values, tr \in Trailings }

\* lines that are not of that shape
OtherLines == { <<"{">>, <<"}", ",">>, <<" ", Quote, "k", Quote, ":", " ", "1", ",">>,
                <<Quote, "k", Quote, ":", " ", "[">> }

\* a JSON object spread over lines, one member line inside
Wrapped(line) == <<"{", "\n">> \o line \o <<"\n", "}">>

SanInputs ==
    BraceTexts \cup KvTexts \cup OtherLines \cup { Wrapped(l) : l \in KvTexts }

SanInit == /\ raw \in SanInputs
           /\ out = <<>>
           /\ spc = "input"

CleanJsonString ==
    /\ spc = "input"
    /\ out' = clean_json_string(raw)
    /\ spc' = "cleaned"
    /\ UNCHANGED <<raw, corrVars, pipeVars>>

FixJsonLines ==
    /\ spc = "input"
    /\ out' = fix_json_lines(raw)
    /\ spc' = "fixed"
    /\ UNCHANGED <<raw, corrVars, pipeVars>>

SanitizerInit == SanInit /\ CorrIdle /\ PipeIdle

SanitizerNext == CleanJsonString \/ FixJsonLines

SanitizerSpec == SanitizerInit /\ [][SanitizerNext]_vars

(***************************************************************************)
(* Claims about the sanitizer (checked under SanitizerSpec)                *)
(***************************************************************************)
Has(s, c) == \E k \in 1..Len(s) : s[k] = c

\* the inclusive span from the first "{" to the last "}"
BraceSpan(t) == SubSeq(t, Find(t, "{") + 1, RFind(t, "}") + 1)

\* C6: after fence stripping, a text holding both a "{" and a "}" is cut to
\* the span from the first "{" to the last "}"; a text lacking either is left
\* as it is by this step (it is not emptied).
C6_BraceTruncation ==
    spc = "cleaned" =>
        LET t == StripFences(raw)
        IN  out = fix_json_lines(IF Has(t, "{") /\ Has(t, "}")
                                 THEN BraceSpan(t) ELSE t)

\* a quote of v that no backslash escapes
RECURSIVE HasUnescapedQuote(_)
HasUnescapedQuote(v) ==
    IF v = <<>> THEN FALSE
    ELSE IF Head(v) = Backslash
         THEN (Len(v) >= 2 /\ HasUnescapedQuote(SubSeq(v, 3, Len(v))))
    ELSE Head(v) = Quote \/ HasUnescapedQuote(Tail(v))

\* the characters between the quotes of a JSON string literal: no bare quote,
\* no control character, every backslash followed by an escape letter
RECURSIVE ValidJsonBody(_)
ValidJsonBody(b) ==
    IF b = <<>> THEN TRUE
    ELSE IF Head(b) = Backslash
         THEN /\ Len(b) >= 2
              /\ b[2] \in {Quote, Backslash, "/", "b", "f", "n", "r", "t"}
              /\ ValidJsonBody(SubSeq(b, 3, Len(b)))
    ELSE Head(b) \notin {Quote, "\t", "\n", "\r", "\f"} /\ ValidJsonBody(Tail(b))

\* line is KeyPart, a valid JSON string literal, and tr
ValidMember(line, tr) ==
    LET n == Len(line) - Len(tr)
        k == Len(KeyPart)
    IN  /\ n >= k + 2
        /\ SubSeq(line, 1, k) = KeyPart
        /\ SubSeq(line, n + 1, Len(line)) = tr
        /\ line[k + 1] = Quote
        /\ line[n] = Quote
        /\ ValidJsonBody(SubSeq(line, k + 2, n - 1))

\* C7: a line "<key>": "<value>"[,] whose value holds an unescaped quote comes
\* out with the value re-serialized as an escaped JSON string literal, key and
\* trailing comma kept, so that it parses as JSON; a line not of this shape
\* comes out unchanged.
C7_StringRepair ==
    spc = "fixed" =>
        /\ \A v \in Values, tr \in Trailings :
              (raw = KvLine(v, tr) /\ HasUnescapedQuote(v)) =>
                  (out = KeyPart \o json_dumps(v) \o tr /\ ValidMember(out, tr))
        /\ raw \in OtherLines => out = raw

(***************************************************************************)
(* process_pdf_chunks                                                      *)
(***************************************************************************)
Unknown == <<"u", "n", "k", "n", "o", "w", "n">>

\* the test as it would be without strip()
IsBlankNoStrip(v) == v = <<>> \/ Lower(v) = Unknown

\* not d[f] or d[f].strip().lower() == "unknown"
IsBlank(v) == v = <<>> \/ Lower(Strip(v)) = Unknown

\* the three carry-forward blocks on one item: st is (last_unit, last_room,
\* last_category); the result is the item and the state after it
CarryForward(d, st) ==
    LET u == IF IsBlank(d.unit) THEN st.unit ELSE d.unit
        r == IF IsBlank(d.room) THEN st.room ELSE d.room
        c == IF IsBlank(d.category) THEN st.category ELSE d.category
    IN  [item |-> [d EXCEPT !.unit = u, !.room = r, !.category = c],
         st   |-> [unit |-> u, room |-> r, category |-> c]]

\* the body of "for it in structured.items": carry-forward, then the two passes
RECURSIVE ItemLoop(_, _, _)
ItemLoop(items, st, fixed_dicts) ==
    IF items = <<>> THEN [fixed |-> fixed_dicts, st |-> st]
    ELSE LET cf == CarryForward(Head(items), st)
         IN  ItemLoop(Tail(items), cf.st, Append(fixed_dicts, Corrector(cf.item)))

\* the chunk's items put in front of all_items instead of behind
ExtendWrong(all, fixed_dicts) == fixed_dicts \o all

\* all_items.extend(fixed_dicts)
Extend(all, fixed_dicts) == all \o fixed_dicts

Carry == [unit |-> last_unit, room |-> last_room, category |-> last_category]

\* bounds of the documents explored
MaxChunks == 2
MaxItems  == 3

Cell0 == <<"0">>
Cell5 == <<"5", ".", "0", "0">>

MkItem(n, u, r, c, costs) ==
    [BaseItem EXCEPT !.serial = n, !.unit = u, !.room = r, !.category = c,
                     !.reset = costs[1], !.remove = costs[2], !.replace = costs[3],
                     !.tax = costs[4], !.oandp = costs[5], !.total = costs[6]]

\* rows no condition flags, a row with oandp == total > 0, a row condition d flags
CleanRow == <<Cell0, Cell0, Cell5, Cell0, Cell0, Cell5>>
DupRow   == <<Cell0, Cell5, <<"5">>, Cell0, Cell5, Cell5>>
LateRow  == <<<<>>, Cell5, <<"5">>, Cell0, Cell0, <<"7">>>>

\* the items a validated response may hold
ItemPool ==
    { MkItem(<<"1">>, <<"U", "1">>, <<>>, <<" ", "U", "n", "k", "n", "o", "w", "n", " ">>, DupRow),
      MkItem(<<"2">>, Unknown, <<"R", "1">>, <<"C", "1">>, CleanRow),
      MkItem(<<"3">>, <<>>, <<"U", "N", "K", "N", "O", "W", "N">>, <<"C", "2">>, LateRow),
      MkItem(<<"4">>, <<" ">>, <<"R", "2">>, <<>>, CleanRow) }

RECURSIVE SumLen(_)
SumLen(entries) ==
    IF entries = <<>> THEN 0 ELSE Len(Head(entries).items) + SumLen(Tail(entries))

\* the item lists the next response may hold (the document holds at most MaxItems)
ItemLists == SeqsUpTo(ItemPool, MaxItems - SumLen(log))

NoOutput == [written |-> FALSE]

PipeInit == /\ pc = "loop"
            /\ nchunks \in 0..MaxChunks
            /\ i = 0
            /\ last_unit = Unknown
            /\ last_room = Unknown
            /\ last_category = Unknown
            /\ all_items = <<>>
            /\ final_output = NoOutput
            /\ uncaught = "none"
            /\ log = <<>>

InLoop == pc = "loop" /\ i < nchunks

\* the history entry of chunk i
Entry(kind, items) ==
    [chunk |-> i, kind |-> kind, items |-> items, before |-> Carry]

\* an exception the loop's handlers catch before any item was looked at:
\* print, next chunk
Skip(kind) ==
    /\ i' = i + 1
    /\ log' = Append(log, Entry(kind, <<>>))
    /\ UNCHANGED <<pc, nchunks, last_unit, last_room, last_category, all_items,
                   final_output, uncaught, corrVars, sanVars>>

\* the call as it would be outside the try block: its exception ends the run
CallFailsFatal ==
    /\ InLoop
    /\ pc' = "crashed"
    /\ uncaught' = "generate_content"
    /\ log' = Append(log, Entry("ServiceError", <<>>))
    /\ UNCHANGED <<nchunks, i, last_unit, last_room, last_category, all_items,
                   final_output, corrVars, sanVars>>

\* client.models.generate_content raises: "except Exception"
CallFails == InLoop /\ Skip("ServiceError")

\* json.loads raises JSONDecodeError: its handler writes chunk_{i}_error.txt
ParseFails == InLoop /\ Skip("ParseError")

\* ... and that write raises inside the handler: nothing catches it
ParseFailsErrorFileFails ==
    /\ InLoop
    /\ pc' = "crashed"
    /\ uncaught' = "error_file_write"
    /\ log' = Append(log, Entry("ParseError", <<>>))
    /\ UNCHANGED <<nchunks, i, last_unit, last_room, last_category, all_items,
                   final_output, corrVars, sanVars>>

\* json_data[0] or BDRItems(**json_data) raises: "except Exception"
SchemaFails == InLoop /\ Skip("SchemaError")

\* the response validates: the item loop, the debug file, all_items.extend
ChunkOk ==
    /\ InLoop
    /\ \E items \in ItemLists :
          LET res == ItemLoop(items, Carry, <<>>)
          IN  /\ last_unit' = res.st.unit
              /\ last_room' = res.st.room
              /\ last_category' = res.st.category
              /\ all_items' = Extend(all_items, res.fixed)
              /\ log' = Append(log, Entry("ok", items))
    /\ i' = i + 1
    /\ UNCHANGED <<pc, nchunks, final_output, uncaught, corrVars, sanVars>>

\* the response validates and the item loop runs, then writing the debug file
\* raises: "except Exception", all_items.extend is not reached
DebugWriteFails ==
    /\ InLoop
    /\ \E items \in ItemLists :
          LET res == ItemLoop(items, Carry, <<>>)
          IN  /\ last_unit' = res.st.unit
              /\ last_room' = res.st.room
              /\ last_category' = res.st.category
              /\ log' = Append(log, Entry("DebugWriteError", items))
    /\ i' = i + 1
    /\ UNCHANGED <<pc, nchunks, all_items, final_output, uncaught, corrVars, sanVars>>

\* after the loop: final_output is written and returned
Finish ==
    /\ pc = "loop"
    /\ i = nchunks
    /\ final_output' = [written |-> TRUE, items |-> all_items]
    /\ pc' = "done"
    /\ UNCHANGED <<nchunks, i, last_unit, last_room, last_category, all_items,
                   uncaught, log, corrVars, sanVars>>

\* ... or writing it raises
FinalWriteFails ==
    /\ pc = "loop"
    /\ i = nchunks
    /\ pc' = "crashed"
    /\ uncaught' = "final_write"
    /\ UNCHANGED <<nchunks, i, last_unit, last_room, last_category, all_items,
                   final_output, log, corrVars, sanVars>>

Init == PipeInit /\ CorrIdle /\ SanIdle

Next ==
    \/ CallFails
    \/ ParseFails
    \/ ParseFailsErrorFileFails
    \/ SchemaFails
    \/ ChunkOk
    \/ DebugWriteFails
    \/ Finish
    \/ FinalWriteFails

Spec == Init /\ [][Next]_vars

(***************************************************************************)
(* Claims about process_pdf_chunks (checked under Spec)                    *)
(***************************************************************************)
CarriedKeys == {"unit", "room", "category"}

\* the chunk got as far as the item loop
Processed(e) == e.kind \in {"ok", "DebugWriteError"}

\* the chunk's items were appended to all_items
Succeeded(e) == e.kind = "ok"

RECURSIVE RawItems(_)
RawItems(entries) ==
    IF entries = <<>> THEN <<>>
    ELSE (IF Processed(Head(entries)) THEN Head(entries).items ELSE <<>>)
         \o RawItems(Tail(entries))

RECURSIVE SucceededItems(_)
SucceededItems(entries) ==
    IF entries = <<>> THEN <<>>
    ELSE (IF Succeeded(Head(entries)) THEN Head(entries).items ELSE <<>>)
         \o SucceededItems(Tail(entries))

\* the claim's words: empty, or "unknown" once trimmed and lower-cased
LacksValue(v) == v = <<>> \/ Lower(Strip(v)) = Unknown

\* the most recent authoritative value of field f among items, "unknown" if none
LastAuthoritative(f, items) ==
    LET auth == {k \in 1..Len(items) : ~LacksValue(items[k][f])}
    IN  IF auth = {} THEN Unknown
        ELSE items[CHOOSE k \in auth : \A j \in auth : j <= k][f]

\* where chunk c's items start in all_items
Offset(c) == Len(SucceededItems(SubSeq(log, 1, c - 1)))

\* the items looked at before item k of chunk c
Earlier(c, k) ==
    RawItems(SubSeq(log, 1, c - 1)) \o SubSeq(log[c].items, 1, k - 1)

\* C1: for unit, room and category alike, an item of a successfully processed
\* chunk that lacks its own value carries, in all_items, the most recent
\* authoritative value among the earlier items of this and the earlier
\* processed chunks ("unknown" if there is none); an item with a value keeps it,
\* and the sticky state is then that value.
C1_StateCarrier ==
    \A f \in CarriedKeys :
        /\ \A c \in 1..Len(log) :
              Succeeded(log[c]) =>
                  \A k \in 1..Len(log[c].items) :
                      LET own      == log[c].items[k][f]
                          resolved == all_items[Offset(c) + k][f]
                      IN  resolved = IF LacksValue(own)
                                     THEN LastAuthoritative(f, Earlier(c, k))
                                     ELSE own
        /\ Carry[f] = LastAuthoritative(f, RawItems(log))

C1_Witness ==
    /\ Len(log) = 2
    /\ Succeeded(log[1])
    /\ Succeeded(log[2])
    /\ [k \in 1..Len(log[1].items) |-> log[1].items[k].unit] = << <<"U", "1">> >>
    /\ [k \in 1..Len(log[2].items) |-> log[2].items[k].unit] = <<Unknown, <<>>>>
    /\ [k \in 1..Len(all_items) |-> all_items[k].unit]
           = << <<"U", "1">>, <<"U", "1">>, <<"U", "1">> >>
    /\ last_unit = <<"U", "1">>

\* an item with the three carried fields blanked out
Uncarried(d) == [d EXCEPT !.unit = <<>>, !.room = <<>>, !.category = <<>>]

\* C2: all_items, and the items of the final output, are the corrected items
\* of the chunks that succeeded, in chunk order and in each chunk's item order;
\* a failed chunk adds nothing and no item is there twice.
C2_Aggregation ==
    LET expected == SucceededItems(log)
    IN  /\ Len(all_items) = Len(expected)
        /\ \A k \in 1..Len(expected) :
              Uncarried(all_items[k]) = Uncarried(Corrector(expected[k]))
        /\ pc = "done" => final_output = [written |-> TRUE, items |-> all_items]

C2_Witness ==
    /\ pc = "done"
    /\ Len(log) = 2
    /\ log[1].kind = "ServiceError"
    /\ Succeeded(log[2])
    /\ Len(final_output.items) = 2
    /\ final_output.items[1].serial = <<"1">>
    /\ final_output.items[2].serial = <<"3">>

\* the statements outside the three chunk errors whose exception ends the run
WriteRaised == uncaught \in {"error_file_write", "final_write"}

CarryAfter(c) == IF c < Len(log) THEN log[c + 1].before ELSE Carry

\* C10: a chunk that adds none of its items to all_items (the call, the
\* parsing, the validation or a later step of its processing failed) leaves
\* the sticky state as it was before the chunk.
C10_SkippedChunkKeepsCarry ==
    \A c \in 1..Len(log) :
        (~Succeeded(log[c]) \/ log[c].items = <<>>) => CarryAfter(c) = log[c].before

====
